---- MODULE Spec2Model ----
(***************************************************************************)
(* The credit / settlement / earnings ledger of MuseMarket.                *)
(*                                                                         *)
(* State: the MongoDB collections the simple-purchase controller works on  *)
(* (SimpleCredit, Purchase, CreatorEarnings, Content.salesCount,           *)
(* User.totalEarnings / totalSales), the payout service's running totals,  *)
(* the wall clock, and the last request with its response.                 *)
(*                                                                         *)
(* Spec runs the handlers one after another: each handler action is one    *)
(* whole request, from the first line of the handler to the response it    *)
(* computes, and starts only once the response of the request before it    *)
(* has been sent.  Requests that run one after another are separated by at *)
(* least one tick of the clock, so two such purchases never draw the same  *)
(* Date.now().                                                             *)
(*                                                                         *)
(* SpecConcurrent runs two requests at the same time: each of its actions  *)
(* is the code of a handler from one await to the next, working on what    *)
(* the handler read before.  SpecSettle does the same for settlements,      *)
(* between purchases that each run alone.                                  *)
(***************************************************************************)
EXTENDS Integers, Sequences, FiniteSets, TLC

----------------------------------------------------------------------------
(* Bounds of the model *)

\* Purchase records the store may hold
MaxPurchases == 2

----------------------------------------------------------------------------
(* The environment: users, the content catalogue, request inputs *)

Users == {"u1", "u2", "u3"}

\* callers of the purchase / balance / settlement endpoints
Buyers == {"u1", "u2"}

\* callers of the older purchase endpoint
LegacyBuyers == {"u1"}

\* callers of the balance endpoint
BalanceCallers == {"u1"}

\* callers of the claim endpoint
Claimers == {"u3"}

\* Content documents: creator and price (Content schema: price in 0..10000)
Content ==
    [c1 |-> [creator |-> "u3", price |-> 30],
     c2 |-> [creator |-> "u3", price |-> 50],
     c3 |-> [creator |-> "u2", price |-> 50]]

ContentIds == DOMAIN Content

\* contentId values of requests: the catalogue and one id that names nothing
ContentInputs == ContentIds \cup {"cX"}

\* contentId values sent to the older purchase endpoint
LegacyContentInputs == {"c1", "cX"}

\* external payment references a buyer may send
Refs == {"0xabc", "0xdef"}

\* req.body.transactionHash: a string, a number, or absent
HashInputs ==
    {[type |-> "string", val |-> r] : r \in Refs}
        \cup {[type |-> "number", val |-> "7"], [type |-> "undefined", val |-> ""]}

\* req.body.amount of a claim
AmountInputs == {0, 30, 80, 200}

\* every user document carries its walletAddress (User schema: required)
walletAddress == [u \in Users |-> "0xwallet_" \o u]

----------------------------------------------------------------------------
(* State *)

VARIABLES
    credit,         \* SimpleCredit collection: user -> document or NoCredit
    purchases,      \* Purchase collection, in insertion order; _id = index
    earnings,       \* CreatorEarnings collection, in insertion (createdAt) order
    salesCount,     \* Content.salesCount
    totalEarnings,  \* User.totalEarnings
    totalSales,     \* User.totalSales
    paidOut,        \* payout service: amount transferred to each wallet owner
    transfers,      \* payout service: number of transfers made
    now,            \* the clock (Date.now())
    settlements,    \* <<user, reference>> of every 'Credit settled successfully' sent
    last,           \* the request being answered and its response; NoResp when idle
    inflight        \* each request in flight at the same time: position and locals

vars == <<credit, purchases, earnings, salesCount, totalEarnings, totalSales,
          paidOut, transfers, now, settlements, last, inflight>>

stores == <<credit, purchases, earnings, salesCount, totalEarnings, totalSales,
            paidOut, transfers, now, settlements>>

NoCredit == [exists |-> FALSE, creditBalance |-> 0, settledTransactions |-> <<>>]

\* the allowance a SimpleCredit document starts with
InitialCredit == 100

\* new SimpleCredit({ user, creditBalance: 100 })
NewCredit ==
    [exists |-> TRUE, creditBalance |-> InitialCredit, settledTransactions |-> <<>>]

\* an Earning's transactionHash before anything set it
NoHash == "undefined"

\* a response: error = "" is success; the other fields are the payload
NoResp ==
    [op |-> "none", user |-> "", content |-> "", ref |-> "", amount |-> 0,
     error |-> "", code |-> 0,
     remainingCredit |-> 0, creditBalance |-> 0, totalAmount |-> 0,
     settledPurchases |-> 0, newCreditBalance |-> 0,
     claimedEarnings |-> 0, remainingPending |-> 0,
     transactionHash |-> "", payoutInvoked |-> FALSE]

\* the requests the server works on at the same time
Slots == {1, 2}

\* a request in flight: where it stands (pc) and the handler's local variables
NoThread ==
    [pc |-> "idle", op |-> "none", user |-> "", content |-> "", amount |-> 0,
     creditBalance |-> 0, purchase |-> 0, pendingEarnings |-> <<>>,
     totalPendingAmount |-> 0, transactionHash |-> "",
     settledTransactions |-> <<>>, pendingPurchases |-> {}]

Init ==
    /\ inflight = [t \in Slots |-> NoThread]
    /\ credit = [u \in Users |-> NoCredit]
    /\ purchases = <<>>
    /\ earnings = <<>>
    /\ salesCount = [c \in ContentIds |-> 0]
    /\ totalEarnings = [u \in Users |-> 0]
    /\ totalSales = [u \in Users |-> 0]
    /\ paidOut = [u \in Users |-> 0]
    /\ transfers = 0
    /\ now = 1
    /\ settlements = {}
    /\ last = NoResp

----------------------------------------------------------------------------
(* Helpers *)

Min(a, b) == IF a < b THEN a ELSE b

Range(s) == {s[i] : i \in DOMAIN s}

RECURSIVE SumSeq(_)
\* reduce((sum, x) => sum + x, 0)
SumSeq(s) == IF s = <<>> THEN 0 ELSE Head(s) + SumSeq(Tail(s))

\* `credit_${Date.now()}`
CreditHash(t) == "credit_" \o ToString(t)

\* `settled_${transactionHash}`
SettledHash(ref) == "settled_" \o ref

\* { $regex: /^credit_/ }
IsCreditHash(h) == Len(h) >= 7 /\ SubSeq(h, 1, 7) = "credit_"

\* Content.findById(contentId)
ContentExists(c) == c \in ContentIds

\* a lookup that only sees purchases not yet settled
ExistingPurchase_Unsettled(ps, b, c) ==
    \E i \in DOMAIN ps :
        ps[i].buyer = b /\ ps[i].content = c /\ IsCreditHash(ps[i].transactionHash)

\* a handler without the already-purchased check
ExistingPurchase_Never(ps, b, c) == FALSE

\* Purchase.findOne({ buyer, content })
ExistingPurchase(ps, b, c) ==
    \E i \in DOMAIN ps : ps[i].buyer = b /\ ps[i].content = c

\* the unique index on Purchase.transactionHash: may document i take hash h?
HashFree(ps, i, h) == \A j \in DOMAIN ps : j # i => ps[j].transactionHash # h

\* the request, before its response is known
Request(op, u) == [NoResp EXCEPT !.op = op, !.user = u]

\* next(new AppError(message, statusCode)) -> the error response
Fail(req, message, statusCode) == [req EXCEPT !.error = message, !.code = statusCode]

\* next(error) for a MongoDB duplicate-key error (not an AppError: 500)
DuplicateKey == "E11000 duplicate key error"

\* no request is in flight: the server is ready for the next one
Idle == last = NoResp

\* res.status(statusCode).json(..): the response leaves, the request is over
sendResponse ==
    /\ ~Idle
    /\ last' = NoResp
    /\ UNCHANGED stores

----------------------------------------------------------------------------
(* Purchase: shared by both purchase endpoints *)

\* new Purchase({ buyer, content, amount: content.price, transactionHash, status })
NewPurchase(b, c, t, st) ==
    [buyer |-> b, content |-> c, amount |-> Content[c].price,
     transactionHash |-> CreditHash(t), status |-> st, createdAt |-> t]

\* PurchaseSchema.pre('save'): the condition under which the hook acts
HookFires(statusModified, st) == statusModified /\ st = "completed"

\* PurchaseSchema.pre('save'): Content.findByIdAndUpdate(.., { $inc: { salesCount: 1 } })
HookSalesCount(sc, p, statusModified) ==
    IF HookFires(statusModified, p.status)
    THEN [sc EXCEPT ![p.content] = @ + 1]
    ELSE sc

\* PurchaseSchema.pre('save'): User.findByIdAndUpdate(content.creator, { $inc: { totalEarnings: amount } })
HookTotalEarnings(te, p, statusModified) ==
    IF HookFires(statusModified, p.status)
    THEN [te EXCEPT ![Content[p.content].creator] = @ + p.amount]
    ELSE te

\* Content.findByIdAndUpdate(contentId, { $inc: { salesCount: 1 } })
IncSalesCount(sc, c) == [sc EXCEPT ![c] = @ + 1]

----------------------------------------------------------------------------
(* simplePurchaseController.createPurchase: POST /api/v1/simple-purchases *)

\* SimpleCredit.findOne({ user }) or a new document with creditBalance 100
GetOrCreateCredit(doc) == IF doc.exists THEN doc ELSE NewCredit

\* a check that turns away a price equal to the balance
HasEnoughCredit_Strict(balance, price) == balance > price

\* the negation of: userCredit.creditBalance < content.price
HasEnoughCredit(balance, price) == ~(balance < price)

\* userCredit.creditBalance -= content.price
Deduct(balance, price) == balance - price

\* the deduction written before the check
Charge_DeductFirst(doc, price) ==
    [ok |-> HasEnoughCredit(doc.creditBalance, price),
     doc |-> [doc EXCEPT !.creditBalance = Deduct(doc.creditBalance, price)]]

\* the credit check, then the deduction: ok says whether the purchase goes on,
\* doc is the SimpleCredit document as the handler leaves it in the store
Charge(doc, price) ==
    IF ~HasEnoughCredit(doc.creditBalance, price)
    THEN [ok |-> FALSE, doc |-> doc]
    ELSE [ok |-> TRUE,
          doc |-> [doc EXCEPT !.creditBalance = Deduct(doc.creditBalance, price)]]

\* new CreatorEarnings({ creator, content, purchase, amount, status: 'pending' })
NewEarning(c, purchaseId, t) ==
    [creator |-> Content[c].creator, content |-> c, purchase |-> purchaseId,
     amount |-> Content[c].price, status |-> "pending", claimedAt |-> 0,
     transactionHash |-> NoHash, createdAt |-> t]

\* the CreatorEarnings document createPurchase saves after the purchase
RecordEarning(es, c, purchaseId, t) == Append(es, NewEarning(c, purchaseId, t))

createPurchase(b, c) ==
    LET req == [Request("createPurchase", b) EXCEPT !.content = c] IN
    IF ~ContentExists(c) THEN
        /\ last' = Fail(req, "Content not found", 404)
        /\ UNCHANGED stores
    ELSE IF ExistingPurchase(purchases, b, c) THEN
        /\ last' = Fail(req, "Content already purchased", 400)
        /\ UNCHANGED stores
    ELSE
        LET price == Content[c].price
            userCredit == GetOrCreateCredit(credit[b])
            charge == Charge(userCredit, price)
            charged == charge.doc
            purchase == NewPurchase(b, c, now, "completed")
            id == Len(purchases) + 1
        IN
        IF ~charge.ok THEN
            /\ credit' = [credit EXCEPT ![b] = charged]
            /\ last' = Fail(req, "Insufficient credit", 400)
            /\ UNCHANGED <<purchases, earnings, salesCount, totalEarnings,
                           totalSales, paidOut, transfers, now, settlements>>
        ELSE IF ~HashFree(purchases, id, purchase.transactionHash) THEN
            \* purchase.save() rejected by the unique index, after the charge
            /\ credit' = [credit EXCEPT ![b] = charged]
            /\ last' = Fail(req, DuplicateKey, 500)
            /\ UNCHANGED <<purchases, earnings, salesCount, totalEarnings,
                           totalSales, paidOut, transfers, now, settlements>>
        ELSE
            /\ Len(purchases) < MaxPurchases
            /\ credit' = [credit EXCEPT ![b] = charged]
            /\ purchases' = Append(purchases, purchase)
            /\ salesCount' = IncSalesCount(HookSalesCount(salesCount, purchase, TRUE), c)
            /\ totalEarnings' = HookTotalEarnings(totalEarnings, purchase, TRUE)
            /\ earnings' = RecordEarning(earnings, c, id, now)
            /\ now' = now + 1
            /\ last' = [req EXCEPT !.code = 201, !.amount = price,
                                   !.transactionHash = purchase.transactionHash,
                                   !.remainingCredit = charged.creditBalance]
            /\ UNCHANGED <<totalSales, paidOut, transfers, settlements>>

----------------------------------------------------------------------------
(* purchaseController.createPurchase: POST /api/v1/purchases *)

purchaseController_createPurchase(b, c) ==
    LET req == [Request("purchaseController.createPurchase", b) EXCEPT !.content = c] IN
    IF ~ContentExists(c) THEN
        /\ last' = Fail(req, "Content not found", 404)
        /\ UNCHANGED stores
    ELSE IF ExistingPurchase(purchases, b, c) THEN
        /\ last' = Fail(req, "Content already purchased", 400)
        /\ UNCHANGED stores
    ELSE
        \* no status given: the schema default 'pending', not a modified path
        LET purchase == NewPurchase(b, c, now, "pending")
            id == Len(purchases) + 1
        IN
        IF ~HashFree(purchases, id, purchase.transactionHash) THEN
            /\ last' = Fail(req, DuplicateKey, 500)
            /\ UNCHANGED stores
        ELSE
            /\ Len(purchases) < MaxPurchases
            /\ purchases' = Append(purchases, purchase)
            /\ salesCount' = IncSalesCount(HookSalesCount(salesCount, purchase, FALSE), c)
            /\ totalEarnings' = HookTotalEarnings(totalEarnings, purchase, FALSE)
            /\ now' = now + 1
            /\ last' = [req EXCEPT !.code = 201, !.amount = purchase.amount,
                                   !.transactionHash = purchase.transactionHash]
            /\ UNCHANGED <<credit, earnings, totalSales, paidOut, transfers, settlements>>

----------------------------------------------------------------------------
(* simplePurchaseController.getCreditBalance *)

getCreditBalance(b) ==
    LET userCredit == GetOrCreateCredit(credit[b]) IN
    /\ credit' = [credit EXCEPT ![b] = userCredit]
    /\ last' = [Request("getCreditBalance", b) EXCEPT
                    !.code = 200, !.creditBalance = userCredit.creditBalance]
    /\ UNCHANGED <<purchases, earnings, salesCount, totalEarnings, totalSales,
                   paidOut, transfers, now, settlements>>

----------------------------------------------------------------------------
(* simplePurchaseController.settleCredit *)

\* a query without the filter on the marker: every purchase of the buyer
PendingPurchases_All(ps, b) == {i \in DOMAIN ps : ps[i].buyer = b}

\* Purchase.find({ buyer, transactionHash: { $regex: /^credit_/ } }): the _ids
PendingPurchases(ps, b) ==
    {i \in DOMAIN ps : ps[i].buyer = b /\ IsCreditHash(ps[i].transactionHash)}

\* pendingPurchases.reduce((sum, purchase) => sum + purchase.amount, 0)
RECURSIVE TotalAmount(_, _)
TotalAmount(ps, ids) ==
    IF ids = {} THEN 0
    ELSE LET i == CHOOSE i \in ids : TRUE
         IN ps[i].amount + TotalAmount(ps, ids \ {i})

\* the negation of: !transactionHash || typeof transactionHash !== 'string'
ValidHash(h) == h.type = "string" /\ h.val # ""

\* a handler without the replay check
AlreadySettled_Never(doc, ref) == FALSE

\* a replay check that looks for the settled marker instead of the reference
AlreadySettled_Marker(doc, ref) == SettledHash(ref) \in Range(doc.settledTransactions)

\* a replay check that looks at the first settled reference only
AlreadySettled_First(doc, ref) ==
    doc.settledTransactions # <<>> /\ Head(doc.settledTransactions) = ref

\* userCredit.settledTransactions.includes(transactionHash)
AlreadySettled(doc, ref) == ref \in Range(doc.settledTransactions)

\* a settlement that adds the allowance instead of resetting to it
SettledBalance_Add(balance, totalAmount) == balance + 100

\* a settlement that gives back the amount owed
SettledBalance_Owed(balance, totalAmount) == balance + totalAmount

\* userCredit.creditBalance = 100
SettledBalance(balance, totalAmount) == 100

\* creditBalance = 100; settledTransactions.push(transactionHash)
SettleLedger(doc, ref, totalAmount) ==
    [doc EXCEPT !.creditBalance = SettledBalance(doc.creditBalance, totalAmount),
                !.settledTransactions = Append(@, ref)]

\* Purchase.updateMany(.., { transactionHash: `settled_${transactionHash}` }) under
\* the unique index on transactionHash.  The documents are rewritten one at a
\* time, `first` first; the update stops at the first one the index rejects and
\* keeps what it wrote before.  ok: no document was rejected.
MarkSettled(ps, b, ref, first) ==
    LET matched == PendingPurchases(ps, b)
        h == SettledHash(ref)
    IN IF ~HashFree(ps, first, h) THEN [ps |-> ps, ok |-> FALSE]
       ELSE [ps |-> [ps EXCEPT ![first].transactionHash = h],
             ok |-> matched = {first}]

\* an update that also releases the earnings it touches
AttachSettlement_Claim(es, purchaseIds, ref) ==
    [i \in DOMAIN es |->
        IF es[i].purchase \in purchaseIds
        THEN [es[i] EXCEPT !.transactionHash = ref, !.status = "claimed"]
        ELSE es[i]]

\* CreatorEarnings.updateMany({ purchase: { $in: purchaseIds } }, { transactionHash })
AttachSettlement(es, purchaseIds, ref) ==
    [i \in DOMAIN es |->
        IF es[i].purchase \in purchaseIds
        THEN [es[i] EXCEPT !.transactionHash = ref]
        ELSE es[i]]

settleCredit(b, h) ==
    LET req == [Request("settleCredit", b) EXCEPT !.ref = h.val]
        userCredit == credit[b]
        pendingPurchases == PendingPurchases(purchases, b)
        totalAmount == TotalAmount(purchases, pendingPurchases)
    IN
    IF ~userCredit.exists THEN
        /\ last' = Fail(req, "Credit not found", 404)
        /\ UNCHANGED stores
    ELSE IF pendingPurchases = {} THEN
        /\ last' = Fail(req, "No pending purchases to settle", 400)
        /\ UNCHANGED stores
    ELSE IF ~ValidHash(h) THEN
        /\ last' = Fail(req, "Valid transaction hash is required", 400)
        /\ UNCHANGED stores
    ELSE IF AlreadySettled(userCredit, h.val) THEN
        /\ last' = Fail(req, "Transaction hash already used for settlement", 400)
        /\ UNCHANGED stores
    ELSE
        \E first \in pendingPurchases :
            LET settled == SettleLedger(userCredit, h.val, totalAmount)
                marked == MarkSettled(purchases, b, h.val, first)
            IN
            /\ credit' = [credit EXCEPT ![b] = settled]
            /\ purchases' = marked.ps
            /\ IF marked.ok
               THEN /\ earnings' = AttachSettlement(earnings, pendingPurchases, h.val)
                    /\ settlements' = settlements \cup {<<b, h.val>>}
                    /\ last' = [req EXCEPT !.code = 200,
                                    !.totalAmount = totalAmount,
                                    !.transactionHash = h.val,
                                    !.settledPurchases = Cardinality(pendingPurchases),
                                    !.newCreditBalance = settled.creditBalance]
               ELSE /\ earnings' = earnings
                    /\ settlements' = settlements
                    /\ last' = Fail(req, DuplicateKey, 500)
            /\ UNCHANGED <<salesCount, totalEarnings, totalSales, paidOut,
                           transfers, now>>

----------------------------------------------------------------------------
(* simplePurchaseController.claimCreatorEarnings *)

\* the negation of: !amount || amount <= 0
ValidAmount(amount) == amount # 0 /\ ~(amount <= 0)

RECURSIVE SortByCreatedAt_Desc(_, _)
\* .sort({ createdAt: -1 }): newest first
SortByCreatedAt_Desc(es, S) ==
    IF S = {} THEN <<>>
    ELSE LET i == CHOOSE i \in S : \A j \in S : es[i].createdAt >= es[j].createdAt
         IN <<i>> \o SortByCreatedAt_Desc(es, S \ {i})

RECURSIVE SortByCreatedAt(_, _)
\* .sort({ createdAt: 1 }): the _ids in S, oldest first
SortByCreatedAt(es, S) ==
    IF S = {} THEN <<>>
    ELSE LET i == CHOOSE i \in S : \A j \in S : es[i].createdAt <= es[j].createdAt
         IN <<i>> \o SortByCreatedAt(es, S \ {i})

\* a query without the filter on status: every earning of the creator
PendingEarnings_AnyStatus(es, u) ==
    SortByCreatedAt(es, {i \in DOMAIN es : es[i].creator = u})

\* a query that only returns earnings a settlement has stamped
PendingEarnings_Settled(es, u) ==
    SortByCreatedAt(es, {i \in DOMAIN es : /\ es[i].creator = u
                                           /\ es[i].status = "pending"
                                           /\ es[i].transactionHash # NoHash})

\* CreatorEarnings.find({ creator, status: 'pending' }).sort({ createdAt: 1 })
PendingEarnings(es, u) ==
    SortByCreatedAt(es, {i \in DOMAIN es : es[i].creator = u /\ es[i].status = "pending"})

\* pendingEarnings.reduce((sum, earning) => sum + earning.amount, 0)
TotalPendingAmount(es, pend) == SumSeq([k \in DOMAIN pend |-> es[pend[k]].amount])

\* a handler without the bound on the requested amount
ExceedsPending_Never(amount, totalPendingAmount) == FALSE

\* a bound that compares against twice the sum read
ExceedsPending_Double(amount, totalPendingAmount) == amount > 2 * totalPendingAmount

\* amount > totalPendingAmount
ExceedsPending(amount, totalPendingAmount) == amount > totalPendingAmount

\* `0x${Math.random().toString(16).substr(2, 64)}`: a fresh reference per transfer
MockTxHash(n) == "0xpayout" \o ToString(n)

RECURSIVE ClaimLoop_OffByOne(_, _, _)
\* the loop leaving on remainingToClaim < 0: one earning too many on an exact claim
ClaimLoop_OffByOne(amounts, remainingToClaim, claimed) ==
    IF amounts = <<>> \/ remainingToClaim < 0 THEN claimed
    ELSE LET claimAmount == Min(remainingToClaim, Head(amounts))
         IN ClaimLoop_OffByOne(Tail(amounts), remainingToClaim - claimAmount, claimed + 1)

RECURSIVE ClaimLoop_WholeOnly(_, _, _)
\* the loop leaving at the first earning the amount left does not cover
ClaimLoop_WholeOnly(amounts, remainingToClaim, claimed) ==
    IF amounts = <<>> \/ remainingToClaim < Head(amounts) THEN claimed
    ELSE ClaimLoop_WholeOnly(Tail(amounts), remainingToClaim - Head(amounts),
                             claimed + 1)

RECURSIVE ClaimLoop(_, _, _)
\* the for-loop over pendingEarnings: how many earnings it marks claimed
ClaimLoop(amounts, remainingToClaim, claimed) ==
    IF amounts = <<>> \/ remainingToClaim <= 0 THEN claimed
    ELSE LET claimAmount == Min(remainingToClaim, Head(amounts))
         IN ClaimLoop(Tail(amounts), remainingToClaim - claimAmount, claimed + 1)

\* earning.status = 'claimed'; claimedAt = new Date(); transactionHash = payout hash
MarkClaimed(es, ids, t, txHash) ==
    [i \in DOMAIN es |->
        IF i \in ids
        THEN [es[i] EXCEPT !.status = "claimed", !.claimedAt = t,
                           !.transactionHash = txHash]
        ELSE es[i]]

\* earnings marked before the transfer is known to have gone through
EarningsAfterTransfer_MarkFirst(es, ids, t, transferOk, txHash) ==
    MarkClaimed(es, ids, t, txHash)

\* the try/catch around WalletService.transferPYUSD, then the marking loop: a
\* transfer that threw leaves the handler before the loop
EarningsAfterTransfer(es, ids, t, transferOk, txHash) ==
    IF transferOk THEN MarkClaimed(es, ids, t, txHash) ELSE es

\* remainingPending: totalPendingAmount - amount
RemainingPending(totalPendingAmount, amount) == totalPendingAmount - amount

claimCreatorEarnings(u, amount, transferOk) ==
    LET req == [Request("claimCreatorEarnings", u) EXCEPT !.amount = amount]
        pendingEarnings == PendingEarnings(earnings, u)
        totalPendingAmount == TotalPendingAmount(earnings, pendingEarnings)
    IN
    IF ~ValidAmount(amount) THEN
        /\ last' = Fail(req, "Valid amount is required", 400)
        /\ UNCHANGED stores
    ELSE IF walletAddress[u] = "" THEN
        /\ last' = Fail(req, "Creator wallet address not found", 400)
        /\ UNCHANGED stores
    ELSE IF pendingEarnings = <<>> THEN
        /\ last' = Fail(req, "No pending earnings to claim", 400)
        /\ UNCHANGED stores
    ELSE IF ExceedsPending(amount, totalPendingAmount) THEN
        /\ last' = Fail(req, "Cannot claim more than available", 400)
        /\ UNCHANGED stores
    ELSE
        LET transferTransactionHash == MockTxHash(transfers + 1)
            n == ClaimLoop([k \in DOMAIN pendingEarnings |->
                                earnings[pendingEarnings[k]].amount], amount, 0)
            claimedIds == {pendingEarnings[k] : k \in 1..n}
            marked == EarningsAfterTransfer(earnings, claimedIds, now, transferOk,
                                            transferTransactionHash)
        IN
        IF ~transferOk THEN
            \* WalletService.transferPYUSD threw
            /\ earnings' = marked
            /\ last' = [Fail(req, "Failed to transfer PYUSD", 500) EXCEPT
                            !.payoutInvoked = TRUE]
            /\ UNCHANGED <<credit, purchases, salesCount, totalEarnings, totalSales,
                           paidOut, transfers, now, settlements>>
        ELSE
        /\ paidOut' = [paidOut EXCEPT ![u] = @ + amount]
        /\ transfers' = transfers + 1
        /\ earnings' = marked
        /\ totalEarnings' = [totalEarnings EXCEPT ![u] = @ + amount]
        /\ totalSales' = [totalSales EXCEPT ![u] = @ + n]
        /\ last' = [req EXCEPT !.code = 200, !.payoutInvoked = TRUE,
                        !.claimedEarnings = n,
                        !.remainingPending = RemainingPending(totalPendingAmount, amount),
                        !.transactionHash = transferTransactionHash]
        /\ UNCHANGED <<credit, purchases, salesCount, now, settlements>>

----------------------------------------------------------------------------
(* The requests, one after another *)

Next ==
    \/ Idle /\ UNCHANGED inflight
            /\ \E b \in Buyers, c \in ContentInputs : createPurchase(b, c)
    \/ Idle /\ UNCHANGED inflight
            /\ \E b \in LegacyBuyers, c \in LegacyContentInputs :
                    purchaseController_createPurchase(b, c)
    \/ Idle /\ UNCHANGED inflight
            /\ \E b \in BalanceCallers : getCreditBalance(b)
    \/ Idle /\ UNCHANGED inflight
            /\ \E b \in Buyers, h \in HashInputs : settleCredit(b, h)
    \/ Idle /\ UNCHANGED inflight
            /\ \E u \in Claimers, a \in AmountInputs, ok \in BOOLEAN :
                    claimCreatorEarnings(u, a, ok)
    \/ sendResponse /\ UNCHANGED inflight

Spec == Init /\ [][Next]_vars

----------------------------------------------------------------------------
(* The requests, in flight at the same time: SpecConcurrent.                *)
(* A handler runs up to an await, lets the other request run, and goes on   *)
(* with what it read before the await.  Each action below is the code from  *)
(* one await to the next.                                                   *)

\* buyers, contents, claimers and amounts of the concurrent requests
ConcurrentBuyers == {"u1"}

ConcurrentContentInputs == {"c1", "c2"}

ConcurrentAmountInputs == {30, 200}

\* the transactionHash of the concurrent settlements
ConcurrentHashInputs == {[type |-> "string", val |-> r] : r \in Refs}

\* a new request is taken up by the first slot that is free
Free(t) ==
    /\ inflight[t].pc = "idle"
    /\ \A s \in Slots : s < t => inflight[s].pc # "idle"

\* next(new AppError(message, statusCode)) or sendSuccess(..): the response
\* leaves, the handler is over and its slot is free again
Finish(th, message, statusCode) == NoThread

\* Date.now(): the millisecond of the draw before it (now - 1), or a later one
DateNow == IF now > 1 THEN {now - 1, now} ELSE {now}

\* the clock after a draw of t
Advance(t) == IF t = now THEN now + 1 ELSE now

\* createPurchase: Content.findById, then Purchase.findOne({ buyer, content })
createPurchase_findOne(t, b, c) ==
    LET th == [NoThread EXCEPT !.op = "createPurchase", !.user = b, !.content = c] IN
    /\ Free(t)
    /\ inflight' = [inflight EXCEPT ![t] =
            IF ~ContentExists(c) THEN Finish(th, "Content not found", 404)
            ELSE IF ExistingPurchase(purchases, b, c)
                 THEN Finish(th, "Content already purchased", 400)
                 ELSE [th EXCEPT !.pc = "findCredit"]]
    /\ UNCHANGED <<stores, last>>

\* the credit check and the deduction on the handler's copy of the document
ChargeLocal(th, doc) ==
    LET charge == Charge(doc, Content[th.content].price) IN
    IF ~charge.ok THEN Finish(th, "Insufficient credit", 400)
    ELSE [th EXCEPT !.pc = "saveCredit", !.creditBalance = charge.doc.creditBalance]

\* createPurchase: SimpleCredit.findOne({ user }); the check and the deduction
\* follow without an await when the document exists
createPurchase_findCredit(t) ==
    LET th == inflight[t] IN
    /\ th.op = "createPurchase" /\ th.pc = "findCredit"
    /\ inflight' = [inflight EXCEPT ![t] =
            IF credit[th.user].exists
            THEN ChargeLocal(th, credit[th.user])
            ELSE [th EXCEPT !.pc = "createCredit"]]
    /\ UNCHANGED <<stores, last>>

\* createPurchase: new SimpleCredit({ user, creditBalance: 100 }).save(), under
\* the unique index on SimpleCredit.user
createPurchase_createCredit(t) ==
    LET th == inflight[t] IN
    /\ th.op = "createPurchase" /\ th.pc = "createCredit"
    /\ IF credit[th.user].exists
       THEN /\ inflight' = [inflight EXCEPT ![t] = Finish(th, DuplicateKey, 500)]
            /\ UNCHANGED credit
       ELSE /\ credit' = [credit EXCEPT ![th.user] = NewCredit]
            /\ inflight' = [inflight EXCEPT ![t] = ChargeLocal(th, NewCredit)]
    /\ UNCHANGED <<purchases, earnings, salesCount, totalEarnings, totalSales,
                   paidOut, transfers, now, settlements, last>>

\* createPurchase: userCredit.save() writes the balance the handler computed
createPurchase_saveCredit(t) ==
    LET th == inflight[t] IN
    /\ th.op = "createPurchase" /\ th.pc = "saveCredit"
    /\ credit' = [credit EXCEPT ![th.user].creditBalance = th.creditBalance]
    /\ inflight' = [inflight EXCEPT ![t].pc = "savePurchase"]
    /\ UNCHANGED <<purchases, earnings, salesCount, totalEarnings, totalSales,
                   paidOut, transfers, now, settlements, last>>

\* createPurchase: new Purchase({ .., `credit_${Date.now()}`, 'completed' }).save(),
\* with the pre-save hook, under the unique index on transactionHash
createPurchase_savePurchase(t, time) ==
    LET th == inflight[t]
        purchase == NewPurchase(th.user, th.content, time, "completed")
        id == Len(purchases) + 1
    IN
    /\ th.op = "createPurchase" /\ th.pc = "savePurchase"
    /\ IF ~HashFree(purchases, id, purchase.transactionHash)
       THEN /\ inflight' = [inflight EXCEPT ![t] = Finish(th, DuplicateKey, 500)]
            /\ UNCHANGED <<purchases, salesCount, totalEarnings, now>>
       ELSE /\ Len(purchases) < MaxPurchases
            /\ purchases' = Append(purchases, purchase)
            /\ salesCount' = HookSalesCount(salesCount, purchase, TRUE)
            /\ totalEarnings' = HookTotalEarnings(totalEarnings, purchase, TRUE)
            /\ now' = Advance(time)
            /\ inflight' = [inflight EXCEPT ![t] =
                    [th EXCEPT !.pc = "saveEarnings", !.purchase = id,
                               !.amount = purchase.amount,
                               !.transactionHash = purchase.transactionHash]]
    /\ UNCHANGED <<credit, earnings, totalSales, paidOut, transfers, settlements, last>>

\* createPurchase: the salesCount $inc, the CreatorEarnings document, the response
createPurchase_saveEarnings(t, time) ==
    LET th == inflight[t] IN
    /\ th.op = "createPurchase" /\ th.pc = "saveEarnings"
    /\ salesCount' = IncSalesCount(salesCount, th.content)
    /\ earnings' = RecordEarning(earnings, th.content, th.purchase, time)
    /\ now' = Advance(time)
    /\ inflight' = [inflight EXCEPT ![t] = Finish(th, "", 201)]
    /\ UNCHANGED <<credit, purchases, totalEarnings, totalSales, paidOut, transfers,
                   settlements, last>>

\* claimCreatorEarnings: the amount and wallet checks, the read of the pending
\* earnings, the bound on the amount
claimCreatorEarnings_find(t, u, amount) ==
    LET th == [NoThread EXCEPT !.op = "claimCreatorEarnings", !.user = u,
                               !.amount = amount]
        pendingEarnings == PendingEarnings(earnings, u)
        totalPendingAmount == TotalPendingAmount(earnings, pendingEarnings)
    IN
    /\ Free(t)
    /\ inflight' = [inflight EXCEPT ![t] =
            IF ~ValidAmount(amount) THEN Finish(th, "Valid amount is required", 400)
            ELSE IF walletAddress[u] = ""
                 THEN Finish(th, "Creator wallet address not found", 400)
            ELSE IF pendingEarnings = <<>>
                 THEN Finish(th, "No pending earnings to claim", 400)
            ELSE IF ExceedsPending(amount, totalPendingAmount)
                 THEN Finish(th, "Cannot claim more than available", 400)
            ELSE [th EXCEPT !.pc = "transfer", !.pendingEarnings = pendingEarnings,
                            !.totalPendingAmount = totalPendingAmount]]
    /\ UNCHANGED <<stores, last>>

\* claimCreatorEarnings: WalletService.transferPYUSD(walletAddress, amount)
claimCreatorEarnings_transfer(t, transferOk) ==
    LET th == inflight[t] IN
    /\ th.op = "claimCreatorEarnings" /\ th.pc = "transfer"
    /\ IF ~transferOk
       THEN /\ inflight' = [inflight EXCEPT ![t] =
                    Finish(th, "Failed to transfer PYUSD", 500)]
            /\ UNCHANGED <<paidOut, transfers>>
       ELSE /\ paidOut' = [paidOut EXCEPT ![th.user] = @ + th.amount]
            /\ transfers' = transfers + 1
            /\ inflight' = [inflight EXCEPT ![t] =
                    [th EXCEPT !.pc = "mark",
                               !.transactionHash = MockTxHash(transfers + 1)]]
    /\ UNCHANGED <<credit, purchases, earnings, salesCount, totalEarnings,
                   totalSales, now, settlements, last>>

\* claimCreatorEarnings: the marking loop over the earnings read before the
\* transfer, the User $inc, the response
claimCreatorEarnings_mark(t) ==
    LET th == inflight[t]
        n == ClaimLoop([k \in DOMAIN th.pendingEarnings |->
                            earnings[th.pendingEarnings[k]].amount], th.amount, 0)
        claimedIds == {th.pendingEarnings[k] : k \in 1..n}
    IN
    /\ th.op = "claimCreatorEarnings" /\ th.pc = "mark"
    /\ earnings' = EarningsAfterTransfer(earnings, claimedIds, now, TRUE,
                                         th.transactionHash)
    /\ totalEarnings' = [totalEarnings EXCEPT ![th.user] = @ + th.amount]
    /\ totalSales' = [totalSales EXCEPT ![th.user] = @ + n]
    /\ inflight' = [inflight EXCEPT ![t] = Finish(th, "", 200)]
    /\ UNCHANGED <<credit, purchases, salesCount, paidOut, transfers, now,
                   settlements, last>>

\* settleCredit: SimpleCredit.findOne({ user })
settleCredit_findCredit(t, b, h) ==
    LET th == [NoThread EXCEPT !.op = "settleCredit", !.user = b,
                               !.transactionHash = h.val]
    IN
    /\ Free(t)
    /\ ValidHash(h)
    /\ inflight' = [inflight EXCEPT ![t] =
            IF ~credit[b].exists THEN Finish(th, "Credit not found", 404)
            ELSE [th EXCEPT !.pc = "findPurchases",
                            !.creditBalance = credit[b].creditBalance,
                            !.settledTransactions = credit[b].settledTransactions]]
    /\ UNCHANGED <<stores, last>>

\* settleCredit: Purchase.find({ buyer, /^credit_/ }), then the checks on what
\* was read, up to the save of the ledger
settleCredit_find(t) ==
    LET th == inflight[t]
        userCredit == [exists |-> TRUE, creditBalance |-> th.creditBalance,
                       settledTransactions |-> th.settledTransactions]
        pendingPurchases == PendingPurchases(purchases, th.user)
    IN
    /\ th.op = "settleCredit" /\ th.pc = "findPurchases"
    /\ inflight' = [inflight EXCEPT ![t] =
            IF pendingPurchases = {}
            THEN Finish(th, "No pending purchases to settle", 400)
            ELSE IF AlreadySettled(userCredit, th.transactionHash)
                 THEN Finish(th, "Transaction hash already used for settlement", 400)
            ELSE [th EXCEPT !.pc = "saveCredit",
                            !.pendingPurchases = pendingPurchases,
                            !.totalPendingAmount =
                                TotalAmount(purchases, pendingPurchases)]]
    /\ UNCHANGED <<stores, last>>

\* settleCredit: userCredit.save() writes creditBalance = 100 and pushes the
\* reference onto the stored settledTransactions
settleCredit_saveCredit(t) ==
    LET th == inflight[t] IN
    /\ th.op = "settleCredit" /\ th.pc = "saveCredit"
    /\ credit' = [credit EXCEPT ![th.user] =
            SettleLedger(credit[th.user], th.transactionHash, th.totalPendingAmount)]
    /\ inflight' = [inflight EXCEPT ![t].pc = "updatePurchases"]
    /\ UNCHANGED <<purchases, earnings, salesCount, totalEarnings, totalSales,
                   paidOut, transfers, now, settlements, last>>

\* settleCredit: Purchase.updateMany over the purchases that carry the marker
\* by now, under the unique index on transactionHash
settleCredit_updatePurchases(t) ==
    LET th == inflight[t]
        matched == PendingPurchases(purchases, th.user)
    IN
    /\ th.op = "settleCredit" /\ th.pc = "updatePurchases"
    /\ IF matched = {}
       THEN /\ inflight' = [inflight EXCEPT ![t].pc = "updateEarnings"]
            /\ UNCHANGED purchases
       ELSE \E first \in matched :
                LET marked == MarkSettled(purchases, th.user, th.transactionHash, first)
                IN /\ purchases' = marked.ps
                   /\ inflight' = [inflight EXCEPT ![t] =
                            IF marked.ok THEN [th EXCEPT !.pc = "updateEarnings"]
                            ELSE Finish(th, DuplicateKey, 500)]
    /\ UNCHANGED <<credit, earnings, salesCount, totalEarnings, totalSales,
                   paidOut, transfers, now, settlements, last>>

\* settleCredit: CreatorEarnings.updateMany over the purchases read at the
\* start, and the response
settleCredit_updateEarnings(t) ==
    LET th == inflight[t] IN
    /\ th.op = "settleCredit" /\ th.pc = "updateEarnings"
    /\ earnings' = AttachSettlement(earnings, th.pendingPurchases, th.transactionHash)
    /\ settlements' = settlements \cup {<<th.user, th.transactionHash>>}
    /\ inflight' = [inflight EXCEPT ![t] = Finish(th, "", 200)]
    /\ UNCHANGED <<credit, purchases, salesCount, totalEarnings, totalSales,
                   paidOut, transfers, now, last>>

NextConcurrent ==
    \/ \E t \in Slots, b \in ConcurrentBuyers, c \in ConcurrentContentInputs :
            createPurchase_findOne(t, b, c)
    \/ \E t \in Slots : createPurchase_findCredit(t)
    \/ \E t \in Slots : createPurchase_createCredit(t)
    \/ \E t \in Slots : createPurchase_saveCredit(t)
    \/ \E t \in Slots, time \in DateNow : createPurchase_savePurchase(t, time)
    \/ \E t \in Slots, time \in DateNow : createPurchase_saveEarnings(t, time)
    \/ \E t \in Slots, u \in Claimers, a \in ConcurrentAmountInputs :
            claimCreatorEarnings_find(t, u, a)
    \/ \E t \in Slots, ok \in BOOLEAN : claimCreatorEarnings_transfer(t, ok)
    \/ \E t \in Slots : claimCreatorEarnings_mark(t)

SpecConcurrent == Init /\ [][NextConcurrent]_vars

\* no request is in flight in any slot
AllFree == \A t \in Slots : inflight[t].pc = "idle"

\* SpecSettle: settlements in flight at the same time, between purchases that
\* each run alone
NextSettle ==
    \/ Idle /\ AllFree /\ UNCHANGED inflight
            /\ \E b \in ConcurrentBuyers, c \in ContentIds : createPurchase(b, c)
    \/ sendResponse /\ UNCHANGED inflight
    \/ Idle /\ \E t \in Slots, b \in ConcurrentBuyers, h \in ConcurrentHashInputs :
                    settleCredit_findCredit(t, b, h)
    \/ \E t \in Slots : settleCredit_find(t)
    \/ \E t \in Slots : settleCredit_saveCredit(t)
    \/ \E t \in Slots : settleCredit_updatePurchases(t)
    \/ \E t \in Slots : settleCredit_updateEarnings(t)

SpecSettle == Init /\ [][NextSettle]_vars

----------------------------------------------------------------------------
(* Properties *)

\* the balance the ledger shows for b: the allowance until the document exists
BalanceOf(cr, b) == IF cr[b].exists THEN cr[b].creditBalance ELSE 100

\* a Purchase of content c by buyer b is in the store
Bought(ps, b, c) == \E i \in DOMAIN ps : ps[i].buyer = b /\ ps[i].content = c

PurchaseOps == {"createPurchase", "purchaseController.createPurchase"}

\* C1: every buyer's creditBalance stays within 0..100 after any sequence of
\* requests.
C1_CreditInRange ==
    \A b \in Users :
        credit[b].exists =>
            (0 <= credit[b].creditBalance /\ credit[b].creditBalance <= 100)

\* one buyer has spent the whole allowance while the other was created, charged
\* nothing and still shows 100
C1_Witness ==
    /\ credit["u1"].exists /\ credit["u1"].creditBalance = 100
    /\ credit["u2"].exists /\ credit["u2"].creditBalance = 0

\* C2: createPurchase of existing content priced p, not yet bought by the
\* buyer, succeeds exactly when p <= creditBalance and then leaves the balance
\* lower by exactly p; when p > creditBalance it fails with 'Insufficient credit'.
C2_ChargeExactlyPrice ==
    [][\A b \in Buyers, c \in ContentIds :
        (last'.op = "createPurchase" /\ last'.user = b /\ last'.content = c
            /\ ~Bought(purchases, b, c))
        => LET p == Content[c].price
               balance == BalanceOf(credit, b)
           IN /\ (last'.error = "") <=> (p <= balance)
              /\ (last'.error = "") => credit'[b].creditBalance = balance - p
              /\ (p > balance) => last'.error = "Insufficient credit"]_vars

\* a purchase priced exactly at the balance left: 50 of 50
C2_Witness ==
    /\ last.op = "createPurchase" /\ last.error = ""
    /\ last.amount = 50 /\ last.remainingCredit = 0
    /\ credit[last.user].creditBalance = 0

\* C3: a createPurchase that fails with 'Insufficient credit' creates no
\* Purchase and no CreatorEarnings, and leaves salesCount and the buyer's
\* creditBalance as they were.
C3_InsufficientChangesNothing ==
    [][(last'.op = "createPurchase" /\ last'.error = "Insufficient credit")
        => /\ purchases' = purchases
           /\ earnings' = earnings
           /\ salesCount' = salesCount
           /\ BalanceOf(credit', last'.user) = BalanceOf(credit, last'.user)]_vars

\* the buyer with balance 20 was refused content priced 50
C3_Witness ==
    /\ last.op = "createPurchase" /\ last.error = "Insufficient credit"
    /\ credit[last.user].creditBalance = 20
    /\ Content[last.content].price = 50
    /\ ~Bought(purchases, last.user, last.content)

\* C4: a createPurchase for a (buyer, content) pair that already has a Purchase
\* fails with 'Content already purchased' and changes no credit, purchase,
\* earning or salesCount.
C4_AlreadyPurchased ==
    [][\A b \in Buyers, c \in ContentIds :
        (last'.op \in PurchaseOps /\ last'.user = b /\ last'.content = c
            /\ Bought(purchases, b, c))
        => /\ last'.error = "Content already purchased"
           /\ credit' = credit
           /\ purchases' = purchases
           /\ earnings' = earnings
           /\ salesCount' = salesCount]_vars

\* the second purchase of a pair was refused, the first one being settled
C4_Witness ==
    /\ last.op = "createPurchase" /\ last.error = "Content already purchased"
    /\ \E i \in DOMAIN purchases :
            /\ purchases[i].buyer = last.user
            /\ purchases[i].content = last.content
            /\ ~IsCreditHash(purchases[i].transactionHash)

\* C5: after a successful settleCredit(buyer, ref) the buyer's creditBalance is
\* 100 and ref is in the buyer's settledTransactions.
C5_SettleResets ==
    (last.op = "settleCredit" /\ last.error = "")
        => /\ credit[last.user].creditBalance = 100
           /\ \E k \in DOMAIN credit[last.user].settledTransactions :
                    credit[last.user].settledTransactions[k] = last.ref

\* a settlement of a purchase that was never charged to the ledger
C5_Witness ==
    /\ last.op = "settleCredit" /\ last.error = ""
    /\ last.totalAmount = 30 /\ last.newCreditBalance = 100
    /\ \E i \in DOMAIN purchases :
            /\ purchases[i].buyer = last.user
            /\ purchases[i].status = "pending"
            /\ purchases[i].transactionHash = "settled_" \o last.ref

\* the unsettled purchases of buyer b
Unsettled(ps, b) ==
    {i \in DOMAIN ps : ps[i].buyer = b /\ IsCreditHash(ps[i].transactionHash)}

\* C6 as stated: after a successful settleCredit(buyer, ref), every later
\* settleCredit(buyer, ref) fails with 'Transaction hash already used for
\* settlement', whatever the state it is issued in.
C6_RepeatIsDuplicate ==
    [][(last'.op = "settleCredit" /\ <<last'.user, last'.ref>> \in settlements)
        => last'.error = "Transaction hash already used for settlement"]_vars

\* C6 as amended: after a successful settleCredit(buyer, ref), every later
\* settleCredit(buyer, ref) fails: with 'Transaction hash already used for
\* settlement' when the buyer has an unsettled purchase, and with 'No pending
\* purchases to settle' when the buyer has none.
C6_RepeatFails ==
    [][(last'.op = "settleCredit" /\ <<last'.user, last'.ref>> \in settlements)
        => last'.error =
                IF Unsettled(purchases, last'.user) = {}
                THEN "No pending purchases to settle"
                ELSE "Transaction hash already used for settlement"]_vars

\* the repeat issued with no purchase since the settlement
C6_Witness ==
    /\ last.op = "settleCredit"
    /\ <<last.user, last.ref>> \in settlements
    /\ last.error = "No pending purchases to settle"

\* C7: once settleCredit(buyer, ref) has succeeded, a replay of it leaves the
\* buyer's ledger as it was: the same creditBalance, and ref in
\* settledTransactions exactly once.
C7_ReplayIdempotent ==
    [][(last'.op = "settleCredit" /\ <<last'.user, last'.ref>> \in settlements)
        => /\ credit'[last'.user] = credit[last'.user]
           /\ Cardinality({k \in DOMAIN credit'[last'.user].settledTransactions :
                    credit'[last'.user].settledTransactions[k] = last'.ref}) = 1]_vars

\* the replay issued after a new purchase of 50: the balance stays at 50
C7_Witness ==
    /\ last.op = "settleCredit"
    /\ <<last.user, last.ref>> \in settlements
    /\ last.error = "Transaction hash already used for settlement"
    /\ credit[last.user].creditBalance = 50

\* C8: every Purchase in the store has exactly one CreatorEarnings referencing
\* it, with the purchase's amount and the content's creator, whichever
\* createPurchase handler stored it.
C8_OneEarningPerPurchase ==
    \A i \in DOMAIN purchases :
        LET linked == {k \in DOMAIN earnings : earnings[k].purchase = i}
        IN /\ Cardinality(linked) = 1
           /\ \A k \in linked :
                /\ earnings[k].amount = purchases[i].amount
                /\ earnings[k].creator = Content[purchases[i].content].creator

\* creator u's earnings with status 'pending'
PendingOf(es, u) ==
    {i \in DOMAIN es : es[i].creator = u /\ es[i].status = "pending"}

RECURSIVE SumAmounts(_, _)
SumAmounts(es, S) ==
    IF S = {} THEN 0
    ELSE LET i == CHOOSE i \in S : TRUE
         IN es[i].amount + SumAmounts(es, S \ {i})

\* the sum of the amounts of creator u's pending earnings
PendingSum(es, u) == SumAmounts(es, PendingOf(es, u))

\* the sums of the prefixes of creator u's pending earnings, oldest first
PrefixSums(es, u) ==
    {SumAmounts(es, {j \in PendingOf(es, u) : es[j].createdAt <= t}) :
        t \in {0} \cup {es[i].createdAt : i \in PendingOf(es, u)}}

\* C9: claimCreatorEarnings(creator, amount) neither succeeds nor calls the
\* payout service when amount exceeds the sum of the creator's pending earnings.
C9_NoClaimBeyondPending ==
    [][(last'.op = "claimCreatorEarnings"
            /\ last'.amount > PendingSum(earnings, last'.user))
        => /\ last'.error # ""
           /\ ~last'.payoutInvoked
           /\ paidOut' = paidOut
           /\ transfers' = transfers
           /\ earnings' = earnings]_vars

\* a claim of 200 against 80 pending was refused
C9_Witness ==
    /\ last.op = "claimCreatorEarnings" /\ last.amount = 200
    /\ PendingSum(earnings, last.user) = 80
    /\ last.error = "Cannot claim more than available"

\* C10: a successful claim of A lowers the sum of the creator's pending
\* earnings by at least A, and by exactly A when A is the sum of a prefix of
\* the pending earnings taken oldest first.
C10_ClaimLowersPending ==
    [][(last'.op = "claimCreatorEarnings" /\ last'.error = "")
        => LET A == last'.amount
               drop == PendingSum(earnings, last'.user)
                            - PendingSum(earnings', last'.user)
           IN /\ drop >= A
              /\ A \in PrefixSums(earnings, last'.user) => drop = A]_vars

\* a claim of 30, the older of two pending earnings, leaves the 50 pending
C10_Witness ==
    /\ last.op = "claimCreatorEarnings" /\ last.error = ""
    /\ last.amount = 30 /\ last.claimedEarnings = 1
    /\ PendingSum(earnings, last.user) = 50

\* C11: a claimCreatorEarnings whose payout call fails answers with an error
\* and mutates nothing: every earning keeps its status, claimedAt and
\* transactionHash, and the creator's totalEarnings and totalSales stay as
\* they were.
C11_PayoutFailureChangesNothing ==
    [][(last'.op = "claimCreatorEarnings" /\ last'.payoutInvoked
            /\ last'.error = "Failed to transfer PYUSD")
        => /\ last'.code = 500
           /\ \A i \in DOMAIN earnings :
                /\ earnings'[i].status = earnings[i].status
                /\ earnings'[i].claimedAt = earnings[i].claimedAt
                /\ earnings'[i].transactionHash = earnings[i].transactionHash
           /\ DOMAIN earnings' = DOMAIN earnings
           /\ totalEarnings' = totalEarnings
           /\ totalSales' = totalSales
           /\ paidOut' = paidOut]_vars

\* the payout of a valid claim of 30 against 80 pending failed
C11_Witness ==
    /\ last.op = "claimCreatorEarnings" /\ last.payoutInvoked
    /\ last.error = "Failed to transfer PYUSD"
    /\ last.amount = 30
    /\ PendingSum(earnings, last.user) = 80

\* the earnings a step turns from pending to claimed
NewlyClaimed(es, es2) ==
    {i \in DOMAIN es : es[i].status = "pending" /\ es2[i].status = "claimed"}

\* C12: the earnings a successful claim marks claimed are a prefix of the
\* creator's pending earnings ordered by createdAt ascending: none is marked
\* while an older earning of the creator, pending when the claim began, stays
\* pending.
C12_OldestFirst ==
    [][(last'.op = "claimCreatorEarnings" /\ last'.error = "")
        => \A i \in NewlyClaimed(earnings, earnings') :
            /\ earnings[i].creator = last'.user
            /\ \A j \in DOMAIN earnings :
                    (/\ earnings[j].creator = last'.user
                     /\ earnings[j].status = "pending"
                     /\ earnings[j].createdAt < earnings[i].createdAt)
                    => earnings'[j].status = "claimed"]_vars

\* a claim of 30 took the older earning of 50 and left the newer one of 30
C12_Witness ==
    /\ last.op = "claimCreatorEarnings" /\ last.error = "" /\ last.amount = 30
    /\ \E i, j \in DOMAIN earnings :
            /\ earnings[i].creator = last.user /\ earnings[j].creator = last.user
            /\ earnings[i].status = "claimed" /\ earnings[i].amount = 50
            /\ earnings[i].transactionHash = last.transactionHash
            /\ earnings[j].status = "pending" /\ earnings[j].amount = 30
            /\ earnings[i].createdAt < earnings[j].createdAt

\* C13: settleCredit changes the status of no CreatorEarnings record, and after
\* a successful settleCredit(buyer, ref) every earning linked to a purchase the
\* settlement collected carries transactionHash = ref.
C13_SettleKeepsStatus ==
    [][(last'.op = "settleCredit")
        => /\ DOMAIN earnings' = DOMAIN earnings
           /\ \A k \in DOMAIN earnings : earnings'[k].status = earnings[k].status
           /\ (last'.error = "")
                => \A k \in DOMAIN earnings :
                        earnings[k].purchase \in Unsettled(purchases, last'.user)
                            => earnings'[k].transactionHash = last'.ref]_vars

\* a settlement stamped its reference on an earning that is still pending
C13_Witness ==
    /\ last.op = "settleCredit" /\ last.error = ""
    /\ \E k \in DOMAIN earnings :
            /\ purchases[earnings[k].purchase].buyer = last.user
            /\ purchases[earnings[k].purchase].transactionHash = "settled_" \o last.ref
            /\ earnings[k].status = "pending"
            /\ earnings[k].transactionHash = last.ref

\* the sum of the amounts of creator u's earnings with status 'claimed'
ClaimedSum(es, u) ==
    SumAmounts(es, {i \in DOMAIN es : es[i].creator = u /\ es[i].status = "claimed"})

\* C14: with no request in flight, for every creator the sum of the amounts of
\* the creator's claimed earnings equals the creator's User.totalEarnings.
C14_ClaimedSumIsTotalEarnings ==
    Idle => \A u \in Users : ClaimedSum(earnings, u) = totalEarnings[u]

\* C15: a claim is decided without regard to settlement: a claim of a positive
\* amount within the creator's pending sum always reaches the payout call, and
\* when the payout goes through it marks earnings claimed, whether or not the
\* purchases behind them still carry the 'credit_' marker.
C15_ClaimIgnoresSettlement ==
    [][(/\ last'.op = "claimCreatorEarnings"
        /\ last'.amount > 0
        /\ PendingOf(earnings, last'.user) # {}
        /\ last'.amount <= PendingSum(earnings, last'.user))
        => /\ last'.payoutInvoked
           /\ last'.error \in {"", "Failed to transfer PYUSD"}
           /\ (last'.error = "") => NewlyClaimed(earnings, earnings') # {}]_vars

\* a claim went through for an earning whose purchase is not settled
C15_Witness ==
    /\ last.op = "claimCreatorEarnings" /\ last.error = ""
    /\ \E k \in DOMAIN earnings :
            /\ earnings[k].creator = last.user
            /\ earnings[k].status = "claimed"
            /\ earnings[k].transactionHash = last.transactionHash
            /\ IsCreditHash(purchases[earnings[k].purchase].transactionHash)
    /\ settlements = {}

\* settleCredit(b, ref) gets past its four checks: the ledger exists, b has an
\* unsettled purchase, ref is a string b has not settled with
PassesSettleChecks(cr, ps, b, ref) ==
    /\ cr[b].exists
    /\ Unsettled(ps, b) # {}
    /\ ref \in Refs
    /\ \A k \in DOMAIN cr[b].settledTransactions : cr[b].settledTransactions[k] # ref

\* C16: a settleCredit(buyer, ref) that gets past its checks settles, for any
\* number (one or more) of unsettled purchases: it answers success, no Purchase
\* of the buyer still carries the 'credit_' marker, every purchase that was
\* unsettled carries 'settled_<ref>', and settledPurchases is their number.
C16_SettlesEveryPurchase ==
    [][(last'.op = "settleCredit"
            /\ PassesSettleChecks(credit, purchases, last'.user, last'.ref))
        => /\ last'.error = ""
           /\ Unsettled(purchases', last'.user) = {}
           /\ \A i \in Unsettled(purchases, last'.user) :
                    purchases'[i].transactionHash = "settled_" \o last'.ref
           /\ last'.settledPurchases = Cardinality(Unsettled(purchases, last'.user))]_vars

\* C17: the creator aggregates change only at claim time: createPurchase and
\* settleCredit leave every User.totalEarnings and User.totalSales as they
\* were, and a successful claim of A adds exactly A to the creator's
\* totalEarnings and the number of earnings it marked to totalSales.
C17_AggregatesChangeAtClaim ==
    [][/\ (last'.op \in {"createPurchase", "settleCredit"})
            => (totalEarnings' = totalEarnings /\ totalSales' = totalSales)
       /\ (last'.op = "claimCreatorEarnings" /\ last'.error = "")
            => /\ totalEarnings'[last'.user] = totalEarnings[last'.user] + last'.amount
               /\ totalSales'[last'.user] = totalSales[last'.user]
                        + Cardinality(NewlyClaimed(earnings, earnings'))]_vars

\* C18: each successful createPurchase of the simple-purchase endpoint raises
\* the salesCount of the content bought by exactly 1 and leaves the other
\* contents' salesCount as they were.
C18_SalesCountByOne ==
    [][(last'.op = "createPurchase" /\ last'.error = "")
        => \A c \in ContentIds :
            salesCount'[c] = salesCount[c] + (IF c = last'.content THEN 1 ELSE 0)]_vars

\* the Purchase records of the pair (b, c)
RecordsOf(ps, b, c) == {i \in DOMAIN ps : ps[i].buyer = b /\ ps[i].content = c}

\* C19: two createPurchase requests for one (buyer, content) in flight together
\* can both pass the already-purchased check before either inserts, leaving two
\* Purchase records for the pair and the buyer charged twice.  The check is
\* the only guard: a request passes it only while no record of its pair is in
\* the store, and once past it nothing that appears in the store stops it: its
\* save of the ledger writes the balance it read less the price, and its save
\* of the Purchase stores a record of the pair.
C19_CheckThenAct ==
    [][\A t \in Slots :
        LET th == inflight[t]
            th2 == inflight'[t]
        IN /\ (th.pc = "idle" /\ th2.pc = "findCredit")
                => RecordsOf(purchases, th2.user, th2.content) = {}
           /\ (th.pc \in {"findCredit", "createCredit"} /\ th2.pc = "saveCredit")
                => th2.creditBalance
                        = BalanceOf(credit, th.user) - Content[th.content].price
           /\ (th.pc = "saveCredit" /\ th2.pc = "savePurchase")
                => credit'[th.user].creditBalance = th.creditBalance
           /\ (th.pc = "savePurchase" /\ th2.pc = "saveEarnings")
                => /\ Len(purchases') = Len(purchases) + 1
                   /\ RecordsOf(purchases', th.user, th.content)
                        = RecordsOf(purchases, th.user, th.content)
                            \cup {Len(purchases')}]_vars

\* both requests for (u1, c1) went through: two records of the pair and nothing
\* else in the store, and the balance lower by twice the price of 30
C19_Witness ==
    /\ Len(purchases) = 2
    /\ RecordsOf(purchases, "u1", "c1") = {1, 2}
    /\ credit["u1"].creditBalance = 100 - 2 * Content["c1"].price
    /\ Len(earnings) = 2
    /\ \A t \in Slots : inflight[t].pc = "idle"

\* the sum of the amounts of every earning recorded for creator u
EarnedSum(es, u) == SumAmounts(es, {i \in DOMAIN es : es[i].creator = u})

\* C20: two claimCreatorEarnings requests of one creator in flight together can
\* both read the same pending sum, both pass the bound on the amount and both
\* call the payout service, so that more is paid out than was pending.  The
\* bound is checked once, against the sum read at that moment: a claim passes
\* only with an amount within the sum then pending, and the payout that
\* follows pays the amount whatever is pending by then.
C20_BoundReadOnce ==
    [][\A t \in Slots :
        LET th == inflight[t]
            th2 == inflight'[t]
        IN /\ (th.pc = "idle" /\ th2.pc = "transfer")
                => /\ th2.totalPendingAmount = PendingSum(earnings, th2.user)
                   /\ th2.amount <= th2.totalPendingAmount
           /\ (th.pc = "transfer" /\ th2.pc = "mark")
                => /\ paidOut'[th.user] = paidOut[th.user] + th.amount
                   /\ transfers' = transfers + 1]_vars

\* two claims of 30 read the same 30 pending and were both paid: 60 paid out
\* against one earning of 30
C20_Witness ==
    /\ \A t \in Slots :
            /\ inflight[t].op = "claimCreatorEarnings" /\ inflight[t].pc = "mark"
            /\ inflight[t].user = "u3" /\ inflight[t].amount = 30
            /\ inflight[t].totalPendingAmount = 30
    /\ EarnedSum(earnings, "u3") = 30
    /\ paidOut["u3"] = 60

\* C22: a buyer's creditBalance rises only through a successful settleCredit of
\* that buyer: createPurchase, getCreditBalance, claimCreatorEarnings and every
\* failing settleCredit leave it as it was or lower, and a successful
\* settleCredit sets it to exactly 100.
C22_OnlySettlementRestores ==
    [][\A b \in Users :
        /\ (BalanceOf(credit', b) > BalanceOf(credit, b))
            => (last'.op = "settleCredit" /\ last'.user = b /\ last'.error = "")
        /\ (last'.op = "settleCredit" /\ last'.user = b /\ last'.error = "")
            => credit'[b].creditBalance = 100]_vars

\* the error the checks of settleCredit(b, ref) give, taken in their order:
\* ledger, unsettled purchases, reference, replay; "" when all four pass
FirstSettleError(cr, ps, b, ref) ==
    IF ~cr[b].exists THEN "Credit not found"
    ELSE IF Unsettled(ps, b) = {} THEN "No pending purchases to settle"
    ELSE IF ref \notin Refs THEN "Valid transaction hash is required"
    ELSE IF \E k \in DOMAIN cr[b].settledTransactions :
                cr[b].settledTransactions[k] = ref
         THEN "Transaction hash already used for settlement"
    ELSE ""

\* C23: every failing settleCredit aborts before any mutation: the buyer's
\* creditBalance and settledTransactions, all Purchase records and all
\* CreatorEarnings records are as they were, and the error is that of the first
\* check that fails, in the order ledger, unsettled purchases, reference, replay.
C23_FailingSettleChangesNothing ==
    [][(last'.op = "settleCredit" /\ last'.error # "")
        => /\ credit' = credit
           /\ purchases' = purchases
           /\ earnings' = earnings
           /\ last'.error = FirstSettleError(credit, purchases, last'.user, last'.ref)]_vars

\* C24: a Purchase record keeps its buyer, content and amount for life, and its
\* transactionHash is rewritten at most once, from a 'credit_' marker to a
\* 'settled_' marker: once settled, no later settleCredit changes it.
C24_PurchaseRewrittenOnce ==
    [][/\ Len(purchases') >= Len(purchases)
       /\ \A i \in DOMAIN purchases :
            /\ purchases'[i].buyer = purchases[i].buyer
            /\ purchases'[i].content = purchases[i].content
            /\ purchases'[i].amount = purchases[i].amount
            /\ (purchases'[i].transactionHash # purchases[i].transactionHash)
                => /\ last'.op = "settleCredit"
                   /\ last'.user = purchases[i].buyer
                   /\ IsCreditHash(purchases[i].transactionHash)
                   /\ purchases'[i].transactionHash = "settled_" \o last'.ref]_vars

\* a second settlement of the buyer, for a later purchase, left the purchase
\* settled first with the marker of the first settlement
C24_Witness ==
    /\ last.op = "settleCredit" /\ last.error = ""
    /\ \E i, j \in DOMAIN purchases :
            /\ purchases[i].buyer = last.user /\ purchases[j].buyer = last.user
            /\ purchases[j].transactionHash = "settled_" \o last.ref
            /\ ~IsCreditHash(purchases[i].transactionHash)
            /\ purchases[i].transactionHash # purchases[j].transactionHash

RECURSIVE SumPurchases(_, _)
\* the sum of the amounts of the Purchase records S
SumPurchases(ps, S) ==
    IF S = {} THEN 0
    ELSE LET i == CHOOSE i \in S : TRUE
         IN ps[i].amount + SumPurchases(ps, S \ {i})

\* C26: with no request in flight, for every buyer that has a SimpleCredit
\* record, 100 minus creditBalance is the sum of the amounts of the buyer's
\* Purchase records that still carry the 'credit_' marker.
C26_CreditConservation ==
    Idle => \A b \in Users :
                credit[b].exists
                    => 100 - credit[b].creditBalance
                            = SumPurchases(purchases, Unsettled(purchases, b))

\* C27: once an earning is claimed, its transactionHash is the payout reference
\* of the claim that consumed it and no later operation overwrites it: a
\* settleCredit of the buyer after the creator's claim leaves it as it was.
C27_ClaimedHashKept ==
    [][\A k \in DOMAIN earnings :
        /\ (earnings[k].status = "pending" /\ earnings'[k].status = "claimed")
            => earnings'[k].transactionHash = last'.transactionHash
        /\ (earnings[k].status = "claimed")
            => earnings'[k].transactionHash = earnings[k].transactionHash]_vars

\* C28: when requests run one after another, for every creator the amount the
\* payout service has transferred to the creator never exceeds the sum of the
\* amounts of the creator's claimed earnings, and so never exceeds the sum of
\* the amounts of all earnings recorded for the creator.
C28_PaidWithinClaimed ==
    \A u \in Users :
        /\ paidOut[u] <= ClaimedSum(earnings, u)
        /\ paidOut[u] <= EarnedSum(earnings, u)

\* a claim of 30 was paid against a claimed earning of 50: less was paid out
\* than the earnings marked claimed
C28_Witness ==
    /\ last.op = "claimCreatorEarnings" /\ last.error = ""
    /\ paidOut[last.user] = 30
    /\ ClaimedSum(earnings, last.user) = 50
    /\ EarnedSum(earnings, last.user) = 80

\* C29: the remainingPending a successful claimCreatorEarnings returns is the
\* sum of the amounts of the creator's earnings still pending after the claim,
\* for every requested amount.
C29_RemainingPendingIsPendingSum ==
    (last.op = "claimCreatorEarnings" /\ last.error = "")
        => last.remainingPending = PendingSum(earnings, last.user)

\* C30: one payment reference settles credit for at most one buyer: once
\* settleCredit(b1, ref) has succeeded, a settleCredit(b2, ref) of another buyer
\* b2 with unsettled purchases does not restore b2's creditBalance and does not
\* add ref to b2's settledTransactions.
C30_ReferenceSettlesOneBuyer ==
    [][\A b2 \in Users :
        (/\ last'.op = "settleCredit" /\ last'.user = b2
         /\ Unsettled(purchases, b2) # {}
         /\ \E b1 \in Users \ {b2} : <<b1, last'.ref>> \in settlements)
        => credit'[b2] = credit[b2]]_vars

\* C21: two settleCredit requests of one buyer in flight together, with the
\* same or with different references, can both read the same set of unsettled
\* purchases, both pass the replay check, and both reset creditBalance to 100
\* and append their reference.  The checks are made once, on what the handler
\* read: a request passes them only with unsettled purchases in the store and a
\* reference absent from the settledTransactions it read, and the save that
\* follows writes 100 and appends the reference whatever the ledger holds by
\* then.
C21_ChecksOnStaleRead ==
    [][\A t \in Slots :
        LET th == inflight[t]
            th2 == inflight'[t]
        IN /\ (th.pc = "idle" /\ th2.pc = "findPurchases")
                => th2.settledTransactions = credit[th2.user].settledTransactions
           /\ (th.pc = "findPurchases" /\ th2.pc = "saveCredit")
                => /\ th2.pendingPurchases = Unsettled(purchases, th.user)
                   /\ th2.pendingPurchases # {}
                   /\ \A k \in DOMAIN th.settledTransactions :
                            th.settledTransactions[k] # th.transactionHash
           /\ (th.pc = "saveCredit" /\ th2.pc = "updatePurchases")
                => /\ credit'[th.user].creditBalance = 100
                   /\ credit'[th.user].settledTransactions
                        = Append(credit[th.user].settledTransactions,
                                 th.transactionHash)]_vars

\* two settlements of u1 with the same reference read the same unsettled
\* purchase and both saved the ledger: 100, and the reference in it twice
C21_Witness ==
    /\ \A t \in Slots :
            /\ inflight[t].op = "settleCredit" /\ inflight[t].pc = "updatePurchases"
            /\ inflight[t].user = "u1" /\ inflight[t].transactionHash = "0xabc"
            /\ inflight[t].pendingPurchases = {1}
            /\ inflight[t].settledTransactions = <<>>
    /\ credit["u1"].creditBalance = 100
    /\ credit["u1"].settledTransactions = <<"0xabc", "0xabc">>
    /\ Unsettled(purchases, "u1") = {1}

====
